---- MODULE Spec2Model ----
(***************************************************************************)
(* Model of the user-ingestion utilities: CSVValidator (validators.py),    *)
(* the custom validators (user_custom_validators.py) and                   *)
(* APIClient.process_validated_csv (api_client.py).                        *)
(*                                                                         *)
(* Text values are sequences of one-character strings, so that strip(),    *)
(* lower(), split(",") and the date patterns are computed as Python        *)
(* computes them.  A DataFrame cell is [nan, s]: pandas' NaN for a blank   *)
(* CSV cell, or the string s of an object-dtype column.                    *)
(***************************************************************************)
EXTENDS Integers, Sequences, FiniteSets, TLC

VARIABLES
    \* ---- CSVValidator.validate_csv ----
    schema,             \* [expected_cols, validation_rules] of the validator
    df,                 \* [columns, rows]: the frame read from csv_path
    today,              \* the day datetime.now() falls on
    pc,                 \* position inside validate_csv
    header_status, header_message,
    duplicate_mobiles,
    output_rows,        \* rows appended so far (after the header row)
    correct_count, error_count,
    summary,
    run,                \* 1: first validate_csv call, 2: the repeated call
    first,              \* what the first call returned
    \* ---- APIClient.process_validated_csv ----
    api_df,             \* rows of the validated CSV with the api_* columns
    api_pc, api_idx,
    uploads,            \* row indexes upload_file was called for, in order
    success_count, api_error_count, skipped_count,
    api_summary,
    \* ---- pure functions applied to one drawn input ----
    fn_in, fn_out, fn_pc

vvars == <<schema, df, today, pc, header_status, header_message,
           duplicate_mobiles, output_rows, correct_count, error_count,
           summary, run, first>>
avars == <<api_df, api_pc, api_idx, uploads, success_count, api_error_count,
           skipped_count, api_summary>>
fvars == <<fn_in, fn_out, fn_pc>>
vars  == <<vvars, avars, fvars>>

-----------------------------------------------------------------------------
(* Python str operations on character sequences *)

Digits == {"0", "1", "2", "3", "4", "5", "6", "7", "8", "9"}

DigitVal(c) ==
    CASE c = "0" -> 0 [] c = "1" -> 1 [] c = "2" -> 2 [] c = "3" -> 3
      [] c = "4" -> 4 [] c = "5" -> 5 [] c = "6" -> 6 [] c = "7" -> 7
      [] c = "8" -> 8 [] c = "9" -> 9

LowerLetters == <<"a","b","c","d","e","f","g","h","i","j","k","l","m",
                  "n","o","p","q","r","s","t","u","v","w","x","y","z">>
UpperLetters == <<"A","B","C","D","E","F","G","H","I","J","K","L","M",
                  "N","O","P","Q","R","S","T","U","V","W","X","Y","Z">>

LowerChar(c) ==
    IF \E i \in 1..26 : UpperLetters[i] = c
    THEN LowerLetters[CHOOSE i \in 1..26 : UpperLetters[i] = c]
    ELSE c

UpperChar(c) ==
    IF \E i \in 1..26 : LowerLetters[i] = c
    THEN UpperLetters[CHOOSE i \in 1..26 : LowerLetters[i] = c]
    ELSE c

\* str.lower() / str.upper()
lower(s) == [i \in 1..Len(s) |-> LowerChar(s[i])]
upper(s) == [i \in 1..Len(s) |-> UpperChar(s[i])]

Whitespace == {" "}

RECURSIVE lstrip(_)
lstrip(s) ==
    IF s # <<>> /\ Head(s) \in Whitespace THEN lstrip(Tail(s)) ELSE s

RECURSIVE rstrip(_)
rstrip(s) ==
    IF s # <<>> /\ s[Len(s)] \in Whitespace
    THEN rstrip(SubSeq(s, 1, Len(s) - 1)) ELSE s

\* str.strip()
strip(s) == rstrip(lstrip(s))

\* str.split(","): the pieces between commas, empty pieces kept
RECURSIVE split(_)
split(s) ==
    IF \A i \in 1..Len(s) : s[i] # ","
    THEN <<s>>
    ELSE LET k == CHOOSE i \in 1..Len(s) :
                      s[i] = "," /\ \A j \in 1..(i - 1) : s[j] # ","
         IN  <<SubSeq(s, 1, k - 1)>> \o split(SubSeq(s, k + 1, Len(s)))

\* pandas' NaN (a blank CSV cell) and a string cell
NaN == [nan |-> TRUE, s |-> <<>>]
Str(s) == [nan |-> FALSE, s |-> s]

S_nan == <<"n", "a", "n">>

\* Python str(value) of a cell: str(float('nan')) is "nan"
str(v) == IF v.nan THEN S_nan ELSE v.s

\* pd.isna(value)
isna(v) == v.nan

\* An error string: a fixed text, the field it names and the values
\* interpolated into it.
Err(msg, field, args) == [msg |-> msg, field |-> field, args |-> args]

-----------------------------------------------------------------------------
(* datetime.strptime(s, "%d<sep>%m<sep>%Y") *)

IsLeap(y) == y % 4 = 0 /\ (y % 100 # 0 \/ y % 400 = 0)

DaysInMonth(y, m) ==
    IF m = 2 THEN (IF IsLeap(y) THEN 29 ELSE 28)
    ELSE IF m \in {4, 6, 9, 11} THEN 30 ELSE 31

AllDigits(s) == \A i \in 1..Len(s) : s[i] \in Digits

RECURSIVE Num(_)
Num(s) == IF s = <<>> THEN 0
          ELSE 10 * Num(SubSeq(s, 1, Len(s) - 1)) + DigitVal(s[Len(s)])

\* %d is 3[0-1]|[1-2]\d|0[1-9]|[1-9]| [1-9]
MatchesPctD(s) ==
    \/ Len(s) = 2 /\ s[1] = "3" /\ s[2] \in {"0", "1"}
    \/ Len(s) = 2 /\ s[1] \in {"1", "2"} /\ s[2] \in Digits
    \/ Len(s) = 2 /\ s[1] = "0" /\ s[2] \in Digits \ {"0"}
    \/ Len(s) = 1 /\ s[1] \in Digits \ {"0"}
    \/ Len(s) = 2 /\ s[1] = " " /\ s[2] \in Digits \ {"0"}

\* %m is 1[0-2]|0[1-9]|[1-9]
MatchesPctM(s) ==
    \/ Len(s) = 2 /\ s[1] = "1" /\ s[2] \in {"0", "1", "2"}
    \/ Len(s) = 2 /\ s[1] = "0" /\ s[2] \in Digits \ {"0"}
    \/ Len(s) = 1 /\ s[1] \in Digits \ {"0"}

\* %Y is \d\d\d\d
MatchesPctY(s) == Len(s) = 4 /\ AllDigits(s)

DayNum(s) == IF s[1] = " " THEN DigitVal(s[2]) ELSE Num(s)

\* TRUE iff strptime returns a datetime (FALSE: it raises ValueError).
\* The whole string must be consumed, the day must exist in the month and
\* the year must be at least datetime.MINYEAR.
strptime(s, sep) ==
    \E i \in 2..Len(s), j \in 4..Len(s) :
        /\ i < j - 1
        /\ s[i] = sep /\ s[j] = sep
        /\ LET d == SubSeq(s, 1, i - 1)
               m == SubSeq(s, i + 1, j - 1)
               y == SubSeq(s, j + 1, Len(s))
           IN  /\ MatchesPctD(d) /\ MatchesPctM(m) /\ MatchesPctY(y)
               /\ Num(y) >= 1
               /\ DayNum(d) <= DaysInMonth(Num(y), Num(m))

\* datetime.now().strftime("%d/%m/%Y") on day number d of November 2026
strftime(d) ==
    <<"0", CHOOSE c \in Digits : DigitVal(c) = d, "/", "1", "1", "/",
      "2", "0", "2", "6">>

-----------------------------------------------------------------------------
(* user_custom_validators.py *)

\* ^(0[1-9]|[12][0-9]|3[01])[/-](0[1-9]|1[0-2])[/-][0-9]{4}$ under re.fullmatch
DatePatternMatches(s) ==
    /\ Len(s) = 10
    /\ \/ s[1] = "0" /\ s[2] \in Digits \ {"0"}
       \/ s[1] \in {"1", "2"} /\ s[2] \in Digits
       \/ s[1] = "3" /\ s[2] \in {"0", "1"}
    /\ s[3] \in {"/", "-"}
    /\ \/ s[4] = "0" /\ s[5] \in Digits \ {"0"}
       \/ s[4] = "1" /\ s[5] \in {"0", "1", "2"}
    /\ s[6] \in {"/", "-"}
    /\ \A i \in 7..10 : s[i] \in Digits

E_DojRequired == Err("date_of_joining is required", "date_of_joining", <<>>)
E_DojFormat ==
    Err("date_of_joining must be in DD/MM/YYYY or DD-MM-YYYY format",
        "date_of_joining", <<>>)
E_DojInvalid == Err("Invalid date_of_joining", "date_of_joining", <<>>)

\* validate_date_of_joining(value, row, reference_data): the list of errors
custom_validate_date_of_joining(value) ==
    LET date_str == strip(str(value)) IN
    IF date_str = <<>> \/ lower(date_str) = S_nan \/ isna(value)
    THEN <<E_DojRequired>>
    ELSE IF ~DatePatternMatches(date_str)
    THEN <<E_DojFormat>>
    ELSE IF strptime(date_str, "/") THEN <<>>
    ELSE IF strptime(date_str, "-") THEN <<>>
    ELSE <<E_DojInvalid>>

-----------------------------------------------------------------------------
(* validators.py: CSVValidator *)

\* A rule of validation_rules.  pattern stands for the regular expression
\* [chars]{min,max}; format is the separator of a "%d<sep>%m<sep>%Y" format.
Rule(type, required) ==
    [type |-> type, required |-> required,
     pattern |-> [chars |-> Digits, min |-> 1, max |-> 1],
     allowed_values |-> <<>>,
     has_format |-> FALSE, format |-> "/",
     has_error_message |-> FALSE, error_message |-> ""]

\* re.fullmatch(pattern, value_str)
fullmatch(pattern, s) ==
    /\ Len(s) >= pattern.min /\ Len(s) <= pattern.max
    /\ \A i \in 1..Len(s) : s[i] \in pattern.chars

\* rule.get("error_message", default)
ErrorMessage(rule, default) ==
    IF rule.has_error_message
    THEN Err(rule.error_message, "", <<>>) ELSE default

\* validate_field with the empty test done without lower(): "NaN" goes on
\* to the rule checks
validate_field_NoLower(field_name, value, rule) ==
    LET value_str == strip(str(value)) IN
    IF value_str = <<>> \/ value_str = S_nan
    THEN (IF rule.required
          THEN <<Err("{field_name} is required", field_name, <<>>)>>
          ELSE <<>>)
    ELSE IF rule.type = "regex"
    THEN (IF ~fullmatch(rule.pattern, value_str)
          THEN <<ErrorMessage(rule, Err("Invalid {field_name}", field_name, <<>>))>>
          ELSE <<>>)
    ELSE IF rule.type = "enum"
    THEN (IF ~\E i \in 1..Len(rule.allowed_values) :
                  upper(rule.allowed_values[i]) = upper(value_str)
          THEN <<ErrorMessage(rule, Err("Invalid {field_name}", field_name, <<>>))>>
          ELSE <<>>)
    ELSE IF rule.type = "date"
    THEN (IF ~strptime(value_str, IF rule.has_format THEN rule.format ELSE "/")
          THEN <<ErrorMessage(rule,
                     Err("Invalid date format for {field_name}", field_name, <<>>))>>
          ELSE <<>>)
    ELSE <<>>

\* CSVValidator.validate_field: <<>> stands for None, else <<error>>
validate_field(field_name, value, rule) ==
    LET value_str == strip(str(value)) IN
    IF value_str = <<>> \/ lower(value_str) = S_nan
    THEN (IF rule.required
          THEN <<Err("{field_name} is required", field_name, <<>>)>>
          ELSE <<>>)
    ELSE IF rule.type = "regex"
    THEN (IF ~fullmatch(rule.pattern, value_str)
          THEN <<ErrorMessage(rule, Err("Invalid {field_name}", field_name, <<>>))>>
          ELSE <<>>)
    ELSE IF rule.type = "enum"
    THEN (IF ~\E i \in 1..Len(rule.allowed_values) :
                  upper(rule.allowed_values[i]) = upper(value_str)
          THEN <<ErrorMessage(rule, Err("Invalid {field_name}", field_name, <<>>))>>
          ELSE <<>>)
    ELSE IF rule.type = "date"
    THEN (IF ~strptime(value_str, IF rule.has_format THEN rule.format ELSE "/")
          THEN <<ErrorMessage(rule,
                     Err("Invalid date format for {field_name}", field_name, <<>>))>>
          ELSE <<>>)
    ELSE <<>>

E_DojMustBe ==
    Err("date_of_joining must be in DD/MM/YYYY format", "date_of_joining", <<>>)

\* CSVValidator.validate_date_of_joining: [date |-> corrected_date, err |-> ...]
\* where err is <<>> for None; now is the day datetime.now() returns.
validate_date_of_joining(value, now) ==
    LET date_str == strip(str(value)) IN
    IF date_str = <<>> \/ lower(date_str) = S_nan
    THEN [date |-> strftime(now), err |-> <<>>]
    ELSE IF strptime(date_str, "/")
    THEN [date |-> date_str, err |-> <<>>]
    ELSE [date |-> strftime(now), err |-> <<E_DojMustBe>>]

\* self.allowed_roles: the keys of rolesmapping.json
allowed_roles == {<<"S">>, <<"D">>}

\* [r.strip() for r in s.split(",")]
StripAll(parts) == [i \in 1..Len(parts) |-> strip(parts[i])]

\* the elements of a sequence that satisfy Keep, in order
RECURSIVE Filter(_, _)
Filter(seq, keep) ==
    IF seq = <<>> THEN <<>>
    ELSE (IF Head(seq) \in keep THEN <<Head(seq)>> ELSE <<>>)
         \o Filter(Tail(seq), keep)

Range(seq) == {seq[i] : i \in 1..Len(seq)}

M_RolesEmpty == "roles cannot be empty"
M_InvalidRoleEach == "Invalid role: {r}, ..."
M_InvalidRoles == "Invalid roles: {tokens}"

\* CSVValidator.validate_roles for a validator whose self.allowed_roles is
\* allowed: <<>> for None, else the one string joining an "Invalid role: r"
\* per bad role
validate_roles_of(allowed, role_string) ==
    IF strip(str(role_string)) = <<>>
    THEN <<Err(M_RolesEmpty, "roles", <<>>)>>
    ELSE LET user_roles == StripAll(split(str(role_string)))
             bad == Filter(user_roles, Range(user_roles) \ allowed)
         IN  IF bad # <<>>
             THEN <<Err(M_InvalidRoleEach, "roles", bad)>>
             ELSE <<>>

\* CSVValidator.validate_roles: <<>> for None, else the one joined string
validate_roles(role_string) == validate_roles_of(allowed_roles, role_string)

\* user_custom_validators.validate_roles(value, row, reference_data): the
\* list of errors.  roles_map is the key set of reference_data.get("roles", {}).
custom_validate_roles(value, roles_map) ==
    IF roles_map = {} THEN <<>>
    ELSE IF strip(str(value)) = <<>> \/ isna(value)
    THEN <<Err(M_RolesEmpty, "roles", <<>>)>>
    ELSE LET user_roles == StripAll(split(str(value)))
             invalid_roles == Filter(user_roles, Range(user_roles) \ roles_map)
         IN  IF invalid_roles # <<>>
             THEN <<Err(M_InvalidRoles, "roles", invalid_roles)>>
             ELSE <<>>

\* self.boundary_dict: id -> name of boundary_template.csv
boundary_dict == {<<<<"1">>, <<"N">>>>, <<<<"2">>, <<"S">>>>}

\* a dict as its set of <<key, value>> items: keys(), values(), get(key)
Keys(dict) == {p[1] : p \in dict}
Values(dict) == {p[2] : p \in dict}
Get(dict, key) == (CHOOSE p \in dict : p[1] = key)[2]

BoundaryKeys == Keys(boundary_dict)
BoundaryValues == Values(boundary_dict)
BoundaryGet(code) == Get(boundary_dict, code)

M_InvalidCode == "Invalid boundary_code: {c}"
M_InvalidArea == "Invalid administrative_area: {a}"
M_Mismatch ==
    "administrative_area '{a}' does not match boundary '{e}' for code '{c}'"
M_InvalidBoth == "Invalid boundary_code: {c}, Invalid administrative_area: {a}"

\* CSVValidator.validate_boundary for a validator whose self.boundary_dict
\* is dict: <<>> for None, else the one joined string
validate_boundary_of(dict, code, area) ==
    LET boundary_code == strip(str(code))
        administrative_area == strip(str(area))
        e1 == IF boundary_code \notin Keys(dict)
              THEN <<boundary_code>> ELSE <<>>
        e2 == IF administrative_area \notin Values(dict)
              THEN <<administrative_area>> ELSE <<>>
    IN  IF e1 # <<>> \/ e2 # <<>>
        THEN <<Err(IF e1 = <<>> THEN M_InvalidArea
                   ELSE IF e2 = <<>> THEN M_InvalidCode
                   ELSE M_InvalidBoth,
                   "boundary_code", e1 \o e2)>>
        ELSE IF Get(dict, boundary_code) # <<>>
                /\ administrative_area # Get(dict, boundary_code)
        THEN <<Err(M_Mismatch, "boundary_code",
                   <<administrative_area, Get(dict, boundary_code), boundary_code>>)>>
        ELSE <<>>

\* CSVValidator.validate_boundary: <<>> for None, else the one joined string
validate_boundary(code, area) == validate_boundary_of(boundary_dict, code, area)

\* user_custom_validators.validate_boundary(value, row, reference_data):
\* the list of errors.  boundaries is reference_data.get("boundaries", {});
\* has_area and area are row.get("administrative_area", "").
custom_validate_boundary(value, has_area, area, boundaries) ==
    IF boundaries = {} THEN <<>>
    ELSE
    LET boundary_code == strip(str(value))
        administrative_area == IF has_area THEN strip(str(area)) ELSE <<>>
        errors ==
            (IF boundary_code \notin Keys(boundaries)
             THEN <<Err(M_InvalidCode, "boundary_code", <<boundary_code>>)>>
             ELSE <<>>)
            \o (IF administrative_area \notin Values(boundaries)
                THEN <<Err(M_InvalidArea, "boundary_code", <<administrative_area>>)>>
                ELSE <<>>)
    IN  IF errors = <<>>
        THEN (IF Get(boundaries, boundary_code) # <<>>
                 /\ administrative_area # Get(boundaries, boundary_code)
              THEN <<Err(M_Mismatch, "boundary_code",
                         <<administrative_area, Get(boundaries, boundary_code),
                           boundary_code>>)>>
              ELSE <<>>)
        ELSE errors

-----------------------------------------------------------------------------
(* CSVValidator.validate_headers and validate_csv *)

\* CSVValidator.validate_headers: [status, message].  The message is the
\* sequence of its parts, each naming a set of columns (list(set) has no
\* fixed order); <<>> is the empty string msg.strip() returns when neither
\* part was added.
validate_headers(expected_cols, csv_headers) ==
    LET missing == Range(expected_cols) \ Range(csv_headers)
        extra == Range(csv_headers) \ Range(expected_cols)
    IN  IF expected_cols = csv_headers
        THEN [status |-> "CORRECT",
              message |-> <<[text |-> "Headers match. No issues.", cols |-> {}]>>]
        ELSE [status |-> "ERROR",
              message |->
                  (IF missing # {}
                   THEN <<[text |-> "Missing columns:", cols |-> missing]>>
                   ELSE <<>>)
                  \o (IF extra # {}
                      THEN <<[text |-> "Extra columns:", cols |-> extra]>>
                      ELSE <<>>)]

\* df["mobile_number"].astype(str).value_counts(), then the values counted
\* more than once
DuplicateMobiles(rows) ==
    {m \in {str(rows[i]["mobile_number"]) : i \in 1..Len(rows)} :
        Cardinality({i \in 1..Len(rows) : str(rows[i]["mobile_number"]) = m}) > 1}

E_DuplicateMobile ==
    Err("Duplicate mobile_number inside CSV", "mobile_number", <<>>)

\* One pass of the loop over validation_rules.items() for one rule:
\* [row, errs], the row as the rule leaves it and the errors it appends.
ApplyRule(field_name, rule, row, columns, dups, now) ==
    IF field_name \notin columns
    THEN [row |-> row, errs |-> <<>>]
    ELSE IF rule.type \in {"regex", "enum"}
    THEN [row |-> row, errs |-> validate_field(field_name, row[field_name], rule)]
    ELSE IF rule.type = "date" /\ field_name = "date_of_joining"
    THEN LET r == validate_date_of_joining(row[field_name], now)
         IN  [row |-> [row EXCEPT ![field_name] = Str(r.date)], errs |-> r.err]
    ELSE IF rule.type = "date" /\ field_name = "date_of_birth"
    THEN [row |-> row, errs |-> validate_field(field_name, row[field_name], rule)]
    ELSE IF rule.type = "custom" /\ field_name = "roles"
    THEN [row |-> row, errs |-> validate_roles(row[field_name])]
    ELSE IF rule.type = "custom" /\ field_name = "mobile_number"
    THEN [row |-> row,
          errs |-> IF strip(str(row["mobile_number"])) \in dups
                   THEN <<E_DuplicateMobile>> ELSE <<>>]
    ELSE IF /\ rule.type = "custom" /\ field_name = "boundary_code"
            /\ "administrative_area" \in columns
    THEN [row |-> row,
          errs |-> validate_boundary(row["boundary_code"], row["administrative_area"])]
    ELSE [row |-> row, errs |-> <<>>]

\* for field_name, rule in self.validation_rules.items(): ...
RECURSIVE ValidateFields(_, _, _, _, _, _)
ValidateFields(rules, row, columns, dups, now, error_list) ==
    IF rules = <<>>
    THEN [row |-> row, error_list |-> error_list]
    ELSE LET r == ApplyRule(Head(rules).field, Head(rules).rule, row,
                            columns, dups, now)
         IN  ValidateFields(Tail(rules), r.row, columns, dups, now,
                            error_list \o r.errs)

\* Status with the test on the list replaced by a test on its length that
\* lets a single error through
Status_OneErrorPasses(error_list) ==
    IF Len(error_list) <= 1 THEN "CORRECT" ELSE "ERROR"

\* status = "CORRECT" if not error_list else "ERROR"
Status(error_list) == IF error_list = <<>> THEN "CORRECT" ELSE "ERROR"

\* CountRow with the else dropped: error_count counts every row
CountRow_NoElse(status, correct, error) ==
    IF status = "CORRECT"
    THEN [correct |-> correct + 1, error |-> error + 1]
    ELSE [correct |-> correct, error |-> error + 1]

\* the two counters after one row
CountRow(status, correct, error) ==
    IF status = "CORRECT"
    THEN [correct |-> correct + 1, error |-> error]
    ELSE [correct |-> correct, error |-> error + 1]

\* str(error_list): "[]" exactly for the empty list
repr(error_list) == [list |-> error_list]

\* row_data = [row[col] for col in csv_headers] + [status, str(error_list)]
RowData(row, csv_headers, status, error_list) ==
    [data |-> [k \in 1..Len(csv_headers) |-> row[csv_headers[k]]],
     validation_status |-> status,
     validation_errors |-> repr(error_list)]

\* output_rows.append(row_data)
AppendRow(rows, row_data) == Append(rows, row_data)

-----------------------------------------------------------------------------
(* Inputs of validate_csv: the validator's schema and the frame read *)

MaxRows == 2        \* records in a table
MaxDay == 2         \* days the clock may reach while the program runs

Entry(field, rule) == [field |-> field, rule |-> rule]

R_username ==
    [Rule("regex", TRUE) EXCEPT
        !.pattern = [chars |-> Range(LowerLetters), min |-> 2, max |-> 3]]
R_gender ==
    [Rule("enum", FALSE) EXCEPT
        !.allowed_values = << <<"M">>, <<"F">> >>,
        !.has_error_message = TRUE,
        !.error_message = "gender must be M or F"]
R_dob == [Rule("date", FALSE) EXCEPT !.has_format = TRUE, !.format = "-"]

FullSchema ==
    [expected_cols |-> <<"username", "mobile_number", "date_of_joining",
                         "date_of_birth", "gender", "roles", "boundary_code",
                         "administrative_area">>,
     validation_rules |->
        <<Entry("username", R_username),
          Entry("mobile_number", Rule("custom", TRUE)),
          Entry("date_of_joining", Rule("date", FALSE)),
          Entry("date_of_birth", R_dob),
          Entry("gender", R_gender),
          Entry("roles", Rule("custom", TRUE)),
          Entry("boundary_code", Rule("custom", TRUE)),
          Entry("administrative_area", Rule("custom", TRUE))>>]

MobileSchema ==
    [expected_cols |-> <<"mobile_number", "date_of_joining">>,
     validation_rules |->
        <<Entry("mobile_number", Rule("custom", TRUE)),
          Entry("date_of_joining", Rule("date", TRUE))>>]

NoMobileSchema ==
    [expected_cols |-> <<"username", "date_of_joining">>,
     validation_rules |->
        <<Entry("username", R_username),
          Entry("date_of_joining", Rule("date", TRUE))>>]

\* the (schema, columns of the table) pairs validate_csv is run on
Configs ==
    {[schema |-> MobileSchema, columns |-> <<"mobile_number", "date_of_joining">>],
     [schema |-> MobileSchema, columns |-> <<"date_of_joining", "mobile_number">>],
     [schema |-> MobileSchema, columns |-> <<"mobile_number", "gender">>],
     [schema |-> MobileSchema, columns |-> <<"username", "date_of_joining">>],
     [schema |-> NoMobileSchema, columns |-> <<"username", "date_of_joining">>],
     [schema |-> NoMobileSchema, columns |-> <<"username", "mobile_number">>],
     [schema |-> FullSchema, columns |-> <<"mobile_number", "roles">>],
     [schema |-> FullSchema, columns |-> <<"gender", "mobile_number">>],
     [schema |-> FullSchema,
      columns |-> <<"mobile_number", "boundary_code", "administrative_area">>],
     [schema |-> FullSchema, columns |-> <<"username", "mobile_number">>],
     [schema |-> FullSchema, columns |-> <<"mobile_number", "date_of_birth">>]}

D_valid == <<"0", "1", "/", "0", "2", "/", "2", "0", "2", "4">>
D_feb31 == <<"3", "1", "-", "0", "2", "-", "2", "0", "2", "4">>
B_valid == <<"0", "1", "-", "0", "2", "-", "2", "0", "0", "0">>
B_feb31 == <<"3", "1", "-", "0", "2", "-", "2", "0", "0", "0">>

\* the cells read_csv can give a column: NaN for a blank cell, else a string
ColumnValues(col) ==
    CASE col = "mobile_number" ->
             {NaN, Str(<<"x", "9">>), Str(<<" ", "x", "9">>)}
      [] col = "date_of_joining" -> {NaN, Str(D_valid), Str(D_feb31)}
      [] col = "date_of_birth" -> {NaN, Str(B_valid), Str(B_feb31)}
      [] col = "username" -> {Str(<<"a", "b">>), Str(<<"A", "1">>)}
      [] col = "gender" -> {Str(<<"m">>), Str(<<"X">>)}
      [] col = "roles" -> {NaN, Str(<<"S">>), Str(<<"S", ",", " ", "F">>)}
      [] col = "boundary_code" -> {Str(<<"1">>), Str(<<"9">>)}
      [] col = "administrative_area" -> {Str(<<"N">>), Str(<<"S">>)}

AllColumns == Range(FullSchema.expected_cols)
AllCells == UNION {ColumnValues(c) : c \in AllColumns}

RowsOver(columns) ==
    {r \in [Range(columns) -> AllCells] :
        \A c \in Range(columns) : r[c] \in ColumnValues(c)}

TablesOver(columns) ==
    {[columns |-> columns, rows |-> rows] :
        rows \in UNION {[1..n -> RowsOver(columns)] : n \in 0..MaxRows}}


NoSummary == [header_status |-> "", header_message |-> <<>>,
              total_users |-> 0, correct_users |-> 0, error_users |-> 0]

NoResult == [validated_df |-> [columns |-> <<>>, rows |-> <<>>],
             summary |-> NoSummary]

\* the variables of the parts a specification does not run
ApiIdle ==
    /\ api_df = <<>> /\ api_pc = "idle" /\ api_idx = 0 /\ uploads = <<>>
    /\ success_count = 0 /\ api_error_count = 0 /\ skipped_count = 0
    /\ api_summary = <<>>

FnIdle == fn_in = <<>> /\ fn_out = <<>> /\ fn_pc = "idle"

ValidatorIdle ==
    /\ schema = [expected_cols |-> <<>>, validation_rules |-> <<>>]
    /\ df = [columns |-> <<>>, rows |-> <<>>]
    /\ today = 1 /\ pc = "idle"
    /\ header_status = "" /\ header_message = <<>>
    /\ duplicate_mobiles = {} /\ output_rows = <<>>
    /\ correct_count = 0 /\ error_count = 0
    /\ summary = NoSummary /\ run = 1 /\ first = NoResult

-----------------------------------------------------------------------------
(* validate_csv as a state machine: one step per loop iteration *)

Init ==
    /\ \E cfg \in Configs :
          /\ schema = cfg.schema
          /\ df \in TablesOver(cfg.columns)
    /\ today = 1
    /\ pc = "start"
    /\ header_status = "" /\ header_message = <<>>
    /\ duplicate_mobiles = {} /\ output_rows = <<>>
    /\ correct_count = 0 /\ error_count = 0
    /\ summary = NoSummary /\ run = 1 /\ first = NoResult
    /\ ApiIdle /\ FnIdle

\* midnight passes: datetime.now() returns the next day from here on
Tick ==
    /\ pc \in {"start", "rows"}
    /\ today < MaxDay
    /\ today' = today + 1
    /\ UNCHANGED <<schema, df, pc, header_status, header_message,
                   duplicate_mobiles, output_rows, correct_count, error_count,
                   summary, run, first>>
    /\ UNCHANGED <<avars, fvars>>

\* validate_csv up to the row loop: read, validate_headers, the duplicate
\* set.  df["mobile_number"] raises KeyError when the column is absent.
ReadCsv ==
    /\ pc = "start"
    /\ LET h == validate_headers(schema.expected_cols, df.columns) IN
          /\ header_status' = h.status
          /\ header_message' = h.message
    /\ IF "mobile_number" \in Range(df.columns)
       THEN /\ duplicate_mobiles' = DuplicateMobiles(df.rows)
            /\ pc' = "rows"
       ELSE /\ duplicate_mobiles' = {}
            /\ pc' = "raised"
    /\ output_rows' = <<>>
    /\ correct_count' = 0 /\ error_count' = 0
    /\ UNCHANGED <<schema, df, today, summary, run, first>>
    /\ UNCHANGED <<avars, fvars>>

\* one iteration of "for idx, row in df.iterrows()"
ValidateRow ==
    /\ pc = "rows"
    /\ Len(output_rows) < Len(df.rows)
    /\ LET row == df.rows[Len(output_rows) + 1]
           v == ValidateFields(schema.validation_rules, row, Range(df.columns),
                               duplicate_mobiles, today, <<>>)
           status == Status(v.error_list)
           c == CountRow(status, correct_count, error_count)
       IN  /\ correct_count' = c.correct
           /\ error_count' = c.error
           /\ output_rows' =
                  AppendRow(output_rows,
                            RowData(v.row, df.columns, status, v.error_list))
    /\ UNCHANGED <<schema, df, today, pc, header_status, header_message,
                   duplicate_mobiles, summary, run, first>>
    /\ UNCHANGED <<avars, fvars>>

\* the frame and the summary validate_csv returns
Finish ==
    /\ pc = "rows"
    /\ Len(output_rows) = Len(df.rows)
    /\ summary' = [header_status |-> header_status,
                   header_message |-> header_message,
                   total_users |-> Len(df.rows),
                   correct_users |-> correct_count,
                   error_users |-> error_count]
    /\ pc' = "done"
    /\ UNCHANGED <<schema, df, today, header_status, header_message,
                   duplicate_mobiles, output_rows, correct_count, error_count,
                   run, first>>
    /\ UNCHANGED <<avars, fvars>>

\* validated_df: csv_headers + ["validation_status", "validation_errors"]
ValidatedDf ==
    [columns |-> df.columns \o <<"validation_status", "validation_errors">>,
     rows |-> output_rows]

Next == Tick \/ ReadCsv \/ ValidateRow \/ Finish

Spec == Init /\ [][Next]_vars

\* The caller validates the same file again with the same validator, whose
\* attributes are as the first call left them (validate_csv assigns none).
Revalidate ==
    /\ pc = "done" /\ run = 1
    /\ first' = [validated_df |-> ValidatedDf, summary |-> summary]
    /\ run' = 2
    /\ pc' = "start"
    /\ header_status' = "" /\ header_message' = <<>>
    /\ duplicate_mobiles' = {} /\ output_rows' = <<>>
    /\ correct_count' = 0 /\ error_count' = 0
    /\ summary' = NoSummary
    /\ UNCHANGED <<schema, df, today>>
    /\ UNCHANGED <<avars, fvars>>

NextTwice == Next \/ Revalidate

SpecTwice == Init /\ [][NextTwice]_vars

-----------------------------------------------------------------------------
(* APIClient.process_validated_csv *)

MaxApiRows == 3     \* rows of the validated CSV handed to the upload step

\* what the validation_status cell of a row can hold
StatusValues == {"CORRECT", "ERROR", "correct", "CORRECT ", "NaN"}

\* what requests.post can do: answer, time out or raise
Outcomes ==
    {[kind |-> "response", status_code |-> 200, success |-> TRUE],
     [kind |-> "response", status_code |-> 200, success |-> FALSE],
     [kind |-> "response", status_code |-> 409, success |-> FALSE],
     [kind |-> "response", status_code |-> 500, success |-> TRUE],
     [kind |-> "Timeout", status_code |-> 0, success |-> FALSE],
     [kind |-> "RequestException", status_code |-> 0, success |-> FALSE],
     [kind |-> "Exception", status_code |-> 0, success |-> FALSE]}

\* APIClient._upload_to_endpoint: [status, status_code]
upload_to_endpoint(o) ==
    IF o.kind = "response"
    THEN [status |-> IF o.status_code = 200 /\ o.success THEN "SUCCESS" ELSE "ERROR",
          status_code |-> o.status_code]
    ELSE IF o.kind = "Timeout"
    THEN [status |-> "ERROR", status_code |-> 408]
    ELSE [status |-> "ERROR", status_code |-> 500]

\* upload_file handing back the endpoint's own status, SUCCESS or ERROR
upload_file_Raw(o) ==
    LET result == upload_to_endpoint(o) IN
    [status |-> result.status, status_code |-> result.status_code]

\* APIClient.upload_file
upload_file(o) ==
    LET result == upload_to_endpoint(o) IN
    [status |-> IF result.status = "SUCCESS" THEN "CREATED" ELSE "FAILED",
     status_code |-> result.status_code]

\* str(result['status_code'])
StatusCodeStr(n) ==
    CASE n = 200 -> "200" [] n = 408 -> "408" [] n = 409 -> "409"
      [] n = 500 -> "500"

\* ShouldUpload with the test turned into "not an ERROR row"
ShouldUpload_NotError(row) == row.validation_status # "ERROR"

\* if row.get('validation_status') == 'CORRECT'
ShouldUpload(row) == row.validation_status = "CORRECT"

InitUpload ==
    /\ \E n \in 0..MaxApiRows :
          \E st \in [1..n -> StatusValues] :
              api_df = [i \in 1..n |->
                           [validation_status |-> st[i], api_status |-> "none",
                            api_status_code |-> "none"]]
    /\ api_pc = "start" /\ api_idx = 0 /\ uploads = <<>>
    /\ success_count = 0 /\ api_error_count = 0 /\ skipped_count = 0
    /\ api_summary = <<>>
    /\ ValidatorIdle /\ FnIdle

\* read the CSV, add the three api_ columns, zero the counters
ProcessStart ==
    /\ api_pc = "start"
    /\ api_df' = [i \in 1..Len(api_df) |->
                     [api_df[i] EXCEPT !.api_status = "", !.api_status_code = ""]]
    /\ success_count' = 0 /\ api_error_count' = 0 /\ skipped_count' = 0
    /\ api_idx' = 1
    /\ api_pc' = "rows"
    /\ UNCHANGED <<uploads, api_summary>>
    /\ UNCHANGED <<vvars, fvars>>

\* one iteration of "for idx, row in df.iterrows()"
ProcessRow ==
    /\ api_pc = "rows"
    /\ api_idx <= Len(api_df)
    /\ IF ShouldUpload(api_df[api_idx])
       THEN \E o \in Outcomes :
              LET result == upload_file(o) IN
              /\ uploads' = Append(uploads, api_idx)
              /\ api_df' = [api_df EXCEPT
                               ![api_idx].api_status = result.status,
                               ![api_idx].api_status_code =
                                   StatusCodeStr(result.status_code)]
              /\ IF result.status \in {"CREATED", "UPDATED"}
                 THEN /\ success_count' = success_count + 1
                      /\ UNCHANGED api_error_count
                 ELSE /\ api_error_count' = api_error_count + 1
                      /\ UNCHANGED success_count
              /\ UNCHANGED skipped_count
       ELSE /\ api_df' = [api_df EXCEPT
                             ![api_idx].api_status = "SKIPPED",
                             ![api_idx].api_status_code = "N/A"]
            /\ skipped_count' = skipped_count + 1
            /\ UNCHANGED <<uploads, success_count, api_error_count>>
    /\ api_idx' = api_idx + 1
    /\ UNCHANGED <<api_pc, api_summary>>
    /\ UNCHANGED <<vvars, fvars>>

\* save the output and return the summary
ProcessFinish ==
    /\ api_pc = "rows"
    /\ api_idx > Len(api_df)
    /\ api_summary' = <<[total_rows |-> Len(api_df), success |-> success_count,
                         error |-> api_error_count, skipped |-> skipped_count]>>
    /\ api_pc' = "done"
    /\ UNCHANGED <<api_df, api_idx, uploads, success_count, api_error_count,
                   skipped_count>>
    /\ UNCHANGED <<vvars, fvars>>

NextUpload == ProcessStart \/ ProcessRow \/ ProcessFinish

SpecUpload == InitUpload /\ [][NextUpload]_vars

-----------------------------------------------------------------------------
(* The date-of-joining checks applied to one value *)

DayParts == {<<"0", "0">>, <<"0", "1">>, <<"2", "9">>, <<"3", "0">>,
             <<"3", "1">>, <<"3", "2">>, <<"1">>}
MonthParts == {<<"0", "0">>, <<"0", "1">>, <<"0", "2">>, <<"0", "4">>,
               <<"1", "2">>, <<"1", "3">>, <<"2">>}
YearParts == {<<"0", "0", "0", "0">>, <<"1", "9", "0", "0">>,
              <<"2", "0", "0", "0">>, <<"2", "0", "2", "3">>,
              <<"2", "0", "2", "4">>, <<"2", "4">>}
Separators == {"/", "-", "."}

DateStrings ==
    {d \o <<s1>> \o m \o <<s2>> \o y :
        d \in DayParts, s1 \in Separators, m \in MonthParts,
        s2 \in Separators, y \in YearParts}

\* blank and missing values, and dates with blanks around them
OtherStrings ==
    {<<>>, <<" ">>, S_nan, <<"N", "a", "N">>, <<" ", "n", "a", "n", " ">>,
     <<"N", "o", "n", "e">>, <<" ">> \o D_valid \o <<" ">>,
     <<" ">> \o D_feb31, D_valid \o <<"0">>}

DateValues == {NaN} \cup {Str(s) : s \in DateStrings \cup OtherStrings}

InitDate ==
    /\ fn_in \in DateValues
    /\ fn_out = <<>>
    /\ fn_pc = "in"
    /\ ValidatorIdle /\ ApiIdle

\* user_custom_validators.validate_date_of_joining(value, row, reference_data)
CallCustomDate ==
    /\ fn_pc = "in"
    /\ fn_out' = <<[fn |-> "custom",
                    errors |-> custom_validate_date_of_joining(fn_in),
                    date |-> <<>>]>>
    /\ fn_pc' = "out"
    /\ UNCHANGED <<fn_in, vvars, avars>>

\* CSVValidator.validate_date_of_joining(date_str) on some day
CallValidatorDate ==
    /\ fn_pc = "in"
    /\ \E now \in 1..MaxDay :
          LET r == validate_date_of_joining(fn_in, now) IN
          fn_out' = <<[fn |-> "validator", errors |-> r.err, date |-> r.date]>>
    /\ fn_pc' = "out"
    /\ UNCHANGED <<fn_in, vvars, avars>>

NextDate == CallCustomDate \/ CallValidatorDate

SpecDate == InitDate /\ [][NextDate]_vars

-----------------------------------------------------------------------------
(* validate_headers applied to one schema and one table header *)

MaxCols == 3        \* columns of a header

HeaderNames == {"username", "mobile_number", "roles"}

\* column lists without a repeated name (read_csv renames repeats)
HeaderLists ==
    {h \in UNION {[1..n -> HeaderNames] : n \in 0..MaxCols} :
        \A i, j \in 1..Len(h) : i # j => h[i] # h[j]}

InitHeaders ==
    /\ fn_in \in [expected_cols : HeaderLists, csv_headers : HeaderLists]
    /\ fn_out = <<>>
    /\ fn_pc = "in"
    /\ ValidatorIdle /\ ApiIdle

CallValidateHeaders ==
    /\ fn_pc = "in"
    /\ fn_out' = <<validate_headers(fn_in.expected_cols, fn_in.csv_headers)>>
    /\ fn_pc' = "out"
    /\ UNCHANGED <<fn_in, vvars, avars>>

NextHeaders == CallValidateHeaders

SpecHeaders == InitHeaders /\ [][NextHeaders]_vars

-----------------------------------------------------------------------------
(* Properties *)

ErrorsOf(out_row) == out_row.validation_errors.list

\* C1: every row validate_csv has emitted carries validation_status ERROR
\* exactly when its validation_errors is not the empty list.
C1_StatusIffErrors ==
    \A i \in 1..Len(output_rows) :
        /\ output_rows[i].validation_status \in {"CORRECT", "ERROR"}
        /\ output_rows[i].validation_status = "ERROR"
               <=> output_rows[i].validation_errors # repr(<<>>)

C1_Witness ==
    \E i, j \in 1..Len(output_rows) :
        /\ output_rows[i].validation_status = "ERROR"
        /\ Len(ErrorsOf(output_rows[i])) >= 1
        /\ output_rows[j].validation_status = "CORRECT"
        /\ ErrorsOf(output_rows[j]) = <<>>

\* C2: when validate_csv returns, correct_users + error_users = total_users
\* = the number of records read, and the result has one row per record in
\* the records' order (the counters agree with the rows emitted all along).
C2_CountsAddUp ==
    /\ pc \in {"rows", "done"} =>
          correct_count + error_count = Len(output_rows)
    /\ pc = "done" =>
          /\ summary.correct_users + summary.error_users = summary.total_users
          /\ summary.total_users = Len(df.rows)
          /\ Len(ValidatedDf.rows) = Len(df.rows)
          /\ \A i \in 1..Len(df.rows) : \A k \in 1..Len(df.columns) :
                df.columns[k] # "date_of_joining" =>
                    output_rows[i].data[k] = df.rows[i][df.columns[k]]

C2_Witness ==
    /\ pc = "done"
    /\ Len(df.rows) = MaxRows
    /\ summary.correct_users >= 1
    /\ summary.error_users >= 1

\* C3: process_validated_csv calls upload_file for a row exactly when the
\* row's validation_status is CORRECT; every other row it has passed is
\* marked SKIPPED and no upload is made for it.
C3_UploadIffCorrect ==
    /\ \A k \in 1..Len(uploads) :
          /\ uploads[k] < api_idx
          /\ api_df[uploads[k]].validation_status = "CORRECT"
    /\ \A i \in 1..Len(api_df) :
          (api_pc \in {"rows", "done"} /\ i < api_idx) =>
              /\ (\E k \in 1..Len(uploads) : uploads[k] = i)
                     <=> api_df[i].validation_status = "CORRECT"
              /\ api_df[i].validation_status # "CORRECT" =>
                     api_df[i].api_status = "SKIPPED"
              /\ api_df[i].validation_status = "CORRECT" =>
                     api_df[i].api_status \in {"CREATED", "FAILED"}

C3_Witness ==
    /\ api_pc = "done"
    /\ \E i, j \in 1..Len(api_df) :
          /\ api_df[i].validation_status = "correct"
          /\ api_df[i].api_status = "SKIPPED"
          /\ api_df[j].validation_status = "CORRECT"
          /\ api_df[j].api_status = "FAILED"
          /\ uploads = <<j>>

\* C4: validate_headers answers CORRECT exactly when the table's column set
\* equals the expected column set, whatever the order, and otherwise ERROR
\* with a message naming every missing and every extra column, at least one.
C4_HeadersBySet ==
    fn_pc = "out" =>
        LET r == fn_out[1]
            missing == Range(fn_in.expected_cols) \ Range(fn_in.csv_headers)
            extra == Range(fn_in.csv_headers) \ Range(fn_in.expected_cols)
        IN  /\ r.status = "CORRECT" <=>
                   Range(fn_in.expected_cols) = Range(fn_in.csv_headers)
            /\ r.status = "ERROR" =>
                   /\ r.message # <<>>
                   /\ missing # {} =>
                          [text |-> "Missing columns:", cols |-> missing]
                              \in Range(r.message)
                   /\ extra # {} =>
                          [text |-> "Extra columns:", cols |-> extra]
                              \in Range(r.message)

HasRule(field, type) ==
    \E k \in 1..Len(schema.validation_rules) :
        /\ schema.validation_rules[k].field = field
        /\ schema.validation_rules[k].rule.type = type

MobileOf(i) == strip(str(df.rows[i]["mobile_number"]))

\* C5: a record gets a duplicate error exactly when its trimmed
\* mobile_number is not empty, "nan" or "None" and occurs in more than one
\* record; the error reads "Duplicate mobile_number: <value>".
C5_DuplicateFlags ==
    ("mobile_number" \in Range(df.columns) /\ HasRule("mobile_number", "custom")) =>
        \A i \in 1..Len(output_rows) :
            LET shared == /\ MobileOf(i) \notin {<<>>, S_nan, <<"N", "o", "n", "e">>}
                          /\ Cardinality({j \in 1..Len(df.rows) :
                                             MobileOf(j) = MobileOf(i)}) > 1
                dup == {e \in Range(ErrorsOf(output_rows[i])) :
                           e.field = "mobile_number"}
            IN  /\ dup # {} <=> shared
                /\ dup \subseteq {Err("Duplicate mobile_number: {value}",
                                      "mobile_number", <<MobileOf(i)>>)}

\* C6: a second validate_csv of the same table by the same validator
\* returns the frame and the summary the first one returned.
C6_Idempotent ==
    (run = 2 /\ pc = "done") =>
        [validated_df |-> ValidatedDf, summary |-> summary] = first

\* C7: every emitted row holds, column by column in the table's order, the
\* values of the record it was made from; only the two result columns are
\* added.
C7_FieldsUnchanged ==
    /\ ValidatedDf.columns = df.columns \o <<"validation_status", "validation_errors">>
    /\ \A i \in 1..Len(output_rows) : \A k \in 1..Len(df.columns) :
          output_rows[i].data[k] = df.rows[i][df.columns[k]]

\* C8: a header mismatch, a missing mobile_number column included, does not
\* stop validate_csv: it goes on to the rows and returns the header ERROR
\* with a result row and a count for every record.
C8_HeaderErrorGoesOn ==
    header_status = "ERROR" =>
        /\ pc \in {"rows", "done"}
        /\ pc = "done" =>
              /\ summary.header_status = "ERROR"
              /\ Len(output_rows) = Len(df.rows)
              /\ summary.total_users = Len(df.rows)

IsEmptyValue(v) ==
    strip(str(v)) = <<>> \/ lower(strip(str(v))) = S_nan \/ isna(v)

\* C9: a record whose date_of_joining is blank or "nan" is emitted with
\* exactly the one date_of_joining error "date_of_joining is required", so
\* its verdict is ERROR.
C9_EmptyDateRequired ==
    ("date_of_joining" \in Range(df.columns) /\ HasRule("date_of_joining", "date")) =>
        \A i \in 1..Len(output_rows) :
            IsEmptyValue(df.rows[i]["date_of_joining"]) =>
                /\ output_rows[i].validation_status = "ERROR"
                /\ Filter(ErrorsOf(output_rows[i]),
                          {e \in Range(ErrorsOf(output_rows[i])) :
                              e.field = "date_of_joining"})
                       = <<E_DojRequired>>

\* DD<sep>MM<sep>YYYY: day 01-31, month 01-12, four digits of year and the
\* same separator, "/" or "-", in both places
IsDayMonthYear(s) ==
    /\ Len(s) = 10
    /\ AllDigits(SubSeq(s, 1, 2)) /\ Num(SubSeq(s, 1, 2)) \in 1..31
    /\ AllDigits(SubSeq(s, 4, 5)) /\ Num(SubSeq(s, 4, 5)) \in 1..12
    /\ AllDigits(SubSeq(s, 7, 10))
    /\ s[3] \in {"/", "-"} /\ s[6] = s[3]

\* the day exists in that month of that year (years start at 1)
IsCalendarDate(s) ==
    /\ Num(SubSeq(s, 7, 10)) >= 1
    /\ Num(SubSeq(s, 1, 2)) <=
           DaysInMonth(Num(SubSeq(s, 7, 10)), Num(SubSeq(s, 4, 5)))

\* C10: for a non-empty value the custom date check returns at most one
\* error: the format message, never "Invalid date_of_joining", when the
\* trimmed value is not DD<sep>MM<sep>YYYY with one separator; else
\* "Invalid date_of_joining" exactly when it is no calendar date.
C10_PatternThenParse ==
    (fn_pc = "out" /\ fn_out[1].fn = "custom" /\ ~IsEmptyValue(fn_in)) =>
        LET s == strip(str(fn_in))
            errors == fn_out[1].errors
        IN  /\ Len(errors) <= 1
            /\ ~IsDayMonthYear(s) => errors = <<E_DojFormat>>
            /\ IsDayMonthYear(s) =>
                  /\ errors = <<E_DojInvalid>> <=> ~IsCalendarDate(s)
                  /\ IsCalendarDate(s) => errors = <<>>

-----------------------------------------------------------------------------
(* The boundary checks applied to one code, one area and one mapping *)

\* boundary mappings: none, the template's, two codes of one name, and a
\* code whose name cell holds only blanks (its stripped name is empty)
BoundaryMaps ==
    {{},
     boundary_dict,
     {<< <<"1">>, <<"N">> >>, << <<"2">>, <<"N">> >>},
     {<< <<"1">>, <<>> >>, << <<"2">>, <<"S">> >>}}

CodeValues ==
    {NaN, Str(<<"1">>), Str(<<" ", "1", " ">>), Str(<<"2">>), Str(<<"9">>)}
AreaValues ==
    {NaN, Str(<<"N">>), Str(<<" ", "N">>), Str(<<"S">>), Str(<<"X">>),
     Str(<<" ">>)}

InitBoundary ==
    /\ fn_in \in [code : CodeValues, has_area : BOOLEAN, area : AreaValues,
                  boundaries : BoundaryMaps]
    /\ fn_out = <<>>
    /\ fn_pc = "in"
    /\ ValidatorIdle /\ ApiIdle

\* user_custom_validators.validate_boundary(value, row, reference_data)
CallCustomBoundary ==
    /\ fn_pc = "in"
    /\ fn_out' = <<[fn |-> "custom",
                    errors |-> custom_validate_boundary(
                                   fn_in.code, fn_in.has_area, fn_in.area,
                                   fn_in.boundaries)]>>
    /\ fn_pc' = "out"
    /\ UNCHANGED <<fn_in, vvars, avars>>

\* CSVValidator.validate_boundary(boundary_code, administrative_area); the
\* row loop calls it only when the table has an administrative_area column
CallValidatorBoundary ==
    /\ fn_pc = "in"
    /\ fn_in.has_area
    /\ fn_out' = <<[fn |-> "validator",
                    errors |-> validate_boundary_of(fn_in.boundaries, fn_in.code,
                                                    fn_in.area)]>>
    /\ fn_pc' = "out"
    /\ UNCHANGED <<fn_in, vvars, avars>>

NextBoundary == CallCustomBoundary \/ CallValidatorBoundary

SpecBoundary == InitBoundary /\ [][NextBoundary]_vars

\* the messages a result carries, a joined string counting for each of its
\* parts
Emitted(errors) ==
    UNION {IF e.msg = M_InvalidBoth THEN {M_InvalidCode, M_InvalidArea}
           ELSE {e.msg} : e \in Range(errors)}

\* C11: with a non-empty mapping, "Invalid boundary_code" is emitted exactly
\* when the trimmed code is no key, "Invalid administrative_area" exactly
\* when the trimmed area is no value, and the mismatch error exactly when
\* neither was and the code's name differs from the area; an empty mapping
\* gives no errors.
C11_BoundaryErrors ==
    fn_pc = "out" =>
        LET m == fn_in.boundaries
            code == strip(str(fn_in.code))
            area == IF fn_in.has_area THEN strip(str(fn_in.area)) ELSE <<>>
            out == Emitted(fn_out[1].errors)
            bad_code == code \notin Keys(m)
            bad_area == area \notin Values(m)
        IN  IF m = {}
            THEN fn_out[1].errors = <<>>
            ELSE /\ M_InvalidCode \in out <=> bad_code
                 /\ M_InvalidArea \in out <=> bad_area
                 /\ M_Mismatch \in out <=>
                        (~bad_code /\ ~bad_area /\ Get(m, code) # area)
                 /\ M_Mismatch \in out =>
                        (M_InvalidCode \notin out /\ M_InvalidArea \notin out)

-----------------------------------------------------------------------------
(* validate_field applied to one value under one rule *)

FieldRules ==
    {[r EXCEPT !.required = req, !.has_error_message = has,
               !.error_message = "rule message"] :
        r \in {R_username, R_gender, R_dob, Rule("date", FALSE),
               Rule("custom", FALSE)},
        req \in BOOLEAN, has \in BOOLEAN}

FieldValues ==
    {NaN, Str(<<>>), Str(<<" ">>), Str(S_nan), Str(<<"N", "a", "N">>),
     Str(<<" ", "N", "A", "N", " ">>), Str(<<"n", "a">>),
     Str(<<"a", "b">>), Str(<<"A", "1">>), Str(<<"m">>), Str(<<"X">>),
     Str(D_valid), Str(B_valid), Str(B_feb31)}

InitField ==
    /\ fn_in \in [field_name : {"username", "gender"}, value : FieldValues,
                  rule : FieldRules]
    /\ fn_out = <<>>
    /\ fn_pc = "in"
    /\ ValidatorIdle /\ ApiIdle

\* CSVValidator.validate_field(field_name, value, rule)
CallValidateField ==
    /\ fn_pc = "in"
    /\ fn_out' = <<[fn |-> "validate_field",
                    errors |-> validate_field(fn_in.field_name, fn_in.value,
                                              fn_in.rule)]>>
    /\ fn_pc' = "out"
    /\ UNCHANGED <<fn_in, vvars, avars>>

NextField == CallValidateField

SpecField == InitField /\ [][NextField]_vars

\* the trimmed text is empty or reads "nan" in any case
IsBlankText(s) ==
    \/ strip(s) = <<>>
    \/ /\ Len(strip(s)) = 3
       /\ strip(s)[1] \in {"n", "N"} /\ strip(s)[2] \in {"a", "A"}
       /\ strip(s)[3] \in {"n", "N"}

\* C12: for a value whose trimmed string is empty or "nan" in any case,
\* validate_field returns exactly "<field> is required" when the rule is
\* required and nothing when it is not, whatever the rule's type: never the
\* message of a pattern, enum or date check.
C12_EmptyValue ==
    (fn_pc = "out" /\ IsBlankText(str(fn_in.value))) =>
        fn_out[1].errors =
            IF fn_in.rule.required
            THEN <<Err("{field_name} is required", fn_in.field_name, <<>>)>>
            ELSE <<>>

C12_Witness ==
    /\ fn_pc = "out"
    /\ fn_in.value = Str(<<" ", "N", "A", "N", " ">>)
    /\ fn_in.rule.type = "regex"
    /\ fn_in.rule.required /\ fn_in.rule.has_error_message
    /\ fn_out[1].errors = <<Err("{field_name} is required", fn_in.field_name, <<>>)>>

-----------------------------------------------------------------------------
(* The role checks applied to one value and one role mapping *)

RoleMaps == {{}, {<<"S">>}, allowed_roles}

RoleValues ==
    {NaN, Str(<<>>), Str(<<" ">>), Str(S_nan), Str(<<"S">>), Str(<<" ", "S", " ">>),
     Str(<<"S", ",", " ", "F">>), Str(<<"F", ",", "G">>), Str(<<"S", ",", "D">>),
     Str(<<"D">>), Str(<<",">>), Str(<<"S", ",">>)}

InitRoles ==
    /\ fn_in \in [value : RoleValues, roles : RoleMaps]
    /\ fn_out = <<>>
    /\ fn_pc = "in"
    /\ ValidatorIdle /\ ApiIdle

\* user_custom_validators.validate_roles(value, row, reference_data)
CallCustomRoles ==
    /\ fn_pc = "in"
    /\ fn_out' = <<[fn |-> "custom",
                    errors |-> custom_validate_roles(fn_in.value, fn_in.roles)]>>
    /\ fn_pc' = "out"
    /\ UNCHANGED <<fn_in, vvars, avars>>

\* CSVValidator.validate_roles(role_string)
CallValidatorRoles ==
    /\ fn_pc = "in"
    /\ fn_out' = <<[fn |-> "validator",
                    errors |-> validate_roles_of(fn_in.roles, fn_in.value)]>>
    /\ fn_pc' = "out"
    /\ UNCHANGED <<fn_in, vvars, avars>>

NextRoles == CallCustomRoles \/ CallValidatorRoles

SpecRoles == InitRoles /\ [][NextRoles]_vars

\* the pieces of a text between its commas, blanks around each removed
RECURSIVE Tokens(_, _)
Tokens(s, acc) ==
    IF s = <<>> THEN <<strip(acc)>>
    ELSE IF Head(s) = "," THEN <<strip(acc)>> \o Tokens(Tail(s), <<>>)
    ELSE Tokens(Tail(s), Append(acc, Head(s)))

\* C13: role validation returns nothing under an empty role mapping;
\* otherwise "roles cannot be empty" alone for an empty value, and for any
\* other value the single error "Invalid roles: <tokens>" listing, in order,
\* exactly the tokens that are no key of the mapping, present exactly when
\* there is such a token.
C13_RoleErrors ==
    fn_pc = "out" =>
        LET errors == fn_out[1].errors
            tokens == Tokens(str(fn_in.value), <<>>)
            invalid == {i \in 1..Len(tokens) : tokens[i] \notin fn_in.roles}
        IN  /\ Len(errors) <= 1
            /\ IF fn_in.roles = {}
               THEN errors = <<>>
               ELSE IF isna(fn_in.value) \/ strip(str(fn_in.value)) = <<>>
               THEN errors = <<Err(M_RolesEmpty, "roles", <<>>)>>
               ELSE /\ errors # <<>> <=> invalid # {}
                    /\ errors # <<>> =>
                          /\ errors[1].msg = M_InvalidRoles
                          /\ Len(errors[1].args) = Cardinality(invalid)
                          /\ \A k \in 1..Len(errors[1].args) :
                                \E i \in invalid :
                                    /\ tokens[i] = errors[1].args[k]
                                    /\ Cardinality({j \in invalid : j < i}) = k - 1

-----------------------------------------------------------------------------
(* The summary and the per-row statuses of process_validated_csv *)

NonCorrectRows ==
    {i \in 1..Len(api_df) : api_df[i].validation_status # "CORRECT"}

\* the state process_validated_csv returns in
C14_Finished ==
    api_pc = "done" =>
        LET s == api_summary[1] IN
        /\ \A i \in 1..Len(api_df) :
              api_df[i].api_status \in {"CREATED", "FAILED", "SKIPPED"}
        /\ s.total_rows = Len(api_df)
        /\ s.success + s.error + s.skipped = s.total_rows
        /\ s.skipped = Cardinality(NonCorrectRows)
        /\ \A i \in 1..Len(api_df) :
              Cardinality({k \in 1..Len(uploads) : uploads[k] = i})
                  = IF i \in NonCorrectRows THEN 0 ELSE 1
        /\ \A k \in 1..Len(uploads) : \A l \in 1..Len(uploads) :
              k < l => uploads[k] < uploads[l]

\* a step that changes the api_status of a row either creates the column or
\* gives the row the loop is at its status, the row still having none, and
\* moves the loop on
C14_AssignedOnce ==
    \A i \in 1..Len(api_df) :
        api_df'[i].api_status # api_df[i].api_status =>
            \/ api_pc = "start" /\ api_df'[i].api_status = ""
            \/ /\ api_pc = "rows"
               /\ i = api_idx
               /\ api_df[i].api_status = ""
               /\ api_df'[i].api_status \in {"CREATED", "FAILED", "SKIPPED"}
               /\ api_idx' = i + 1

\* C14: when process_validated_csv has finished, every row has one api_status
\* out of CREATED, FAILED and SKIPPED, given to it once and in row order; the
\* summary has success + error + skipped = total_rows, skipped is the number
\* of rows that are not CORRECT, and every CORRECT row was uploaded exactly
\* once whatever the outcome of the upload.
C14_SummaryAndOnce == []C14_Finished /\ [][C14_AssignedOnce]_vars

C14_Witness ==
    /\ api_pc = "done"
    /\ Len(api_df) = 3
    /\ api_df[1].validation_status = "CORRECT" /\ api_df[1].api_status = "FAILED"
    /\ api_df[1].api_status_code = "408"
    /\ api_df[2].validation_status = "ERROR" /\ api_df[2].api_status = "SKIPPED"
    /\ api_df[3].validation_status = "CORRECT" /\ api_df[3].api_status = "CREATED"
    /\ uploads = <<1, 3>>
    /\ api_summary = <<[total_rows |-> 3, success |-> 1, error |-> 1, skipped |-> 1]>>

====
